---- MODULE Spec2Model ----
(***************************************************************************)
(* rocket_auth_nosql: the authentication / session engine.                 *)
(*                                                                         *)
(* The repository (MongoDB collection "users"), the session store (the     *)
(* in-process CHashMap or the redis client) and the private cookie of each *)
(* client are the state.  Every public operation of Auth / Users is one    *)
(* action; the request guards and the conversions are operators.           *)
(*                                                                         *)
(* Spec:        sessions and the clock (login, login_for, logout, expiry). *)
(* AccountSpec: every operation, account management included, the clock    *)
(*              standing still.                                            *)
(* DeleteSpec:  Auth::delete statement by statement, with servers that     *)
(*              stop answering and a process that crashes.                 *)
(* PolicySpec:  the password policy applied to every password of a bounded *)
(*              alphabet.                                                  *)
(* LogoutSpec, UpdateSpec, OrphanSpec, LoginSpec: one operation statement  *)
(*              by statement, interleaved with the requests of the other   *)
(*              client (or with a database that stops answering).          *)
(***************************************************************************)
EXTENDS Integers, Sequences, FiniteSets, TLC

\* ------------------------------------------------------------------ bounds

\* Number of clients (browsers), each with its own private cookie jar.
NumClients == 2
\* Number of user records the repository ever assigns an ObjectId to.
MaxUsers == 2
\* Number of distinct strings rand_string can return for one length.
NumKeys == 1
\* Largest custom TTL (seconds) a caller passes to login_for.
MaxTTL == 1
\* Longest password (characters) the policy is applied to in PolicySpec.
MaxPwLen == 8

Clients == 1..NumClients
Ids == 1..MaxUsers
TTLs == 1..MaxTTL

\* ---------------------------------------------------------------- options

\* Option<T>: None is the empty sequence, Some(x) the one-element sequence.
None == <<>>
Some(x) == <<x>>
IsSome(o) == o # <<>>
Unwrap(o) == o[1]

\* ------------------------------------------------------------------ inputs

\* Passwords are sequences of characters.
PwAbc12345 == <<"A", "b", "c", "1", "2", "3", "4", "5">>
PwShort1 == <<"s", "h", "o", "r", "t", "1">>
Passwords == {PwAbc12345, PwShort1}

UpperChars == {"A"}
LowerChars == {"b", "c", "s", "h", "o", "r", "t", "U+00E9"}
DigitChars == {"1", "2", "3", "4", "5"}

\* char::len_utf8: U+00E9 (e with acute accent, a lowercase letter) takes two bytes,
\* the ASCII characters one.
len_utf8(c) == IF c = "U+00E9" THEN 2 ELSE 1

\* str::len: the length of the string in bytes.
RECURSIVE str_len(_)
str_len(s) == IF s = <<>> THEN 0 ELSE len_utf8(Head(s)) + str_len(Tail(s))

\* Email addresses: two well-formed ones and one validator::validate_email rejects.
ValidEmails == {"a@x.com", "dup@x.com"}
InvalidEmail == "not-an-email"
Emails == ValidEmails \cup {InvalidEmail}
validate_email(email) == email \in ValidEmails

\* Verification tokens (opaque random strings): the ones a caller may present, and the
\* one representative a new record is given.
Tokens == {"tok123", "tok456"}
NewTokens == {"tok123"}

\* rand_string(size): a random ASCII string of `size` characters.
rand_string(size) == {[len |-> size, n |-> i] : i \in 1..NumKeys}

\* The salt rand_string draws for a hash: one representative, no operation compares salts.
rand_salt(size) == {[len |-> size, n |-> 1]}

\* const YEAR_IN_SECS
YEAR_IN_SECS == 365 * 60 * 60 * 24

\* The instants the clock is read at: every custom TTL's deadline and the default one.
Times == (0..MaxTTL) \cup {YEAR_IN_SECS}

\* -------------------------------------------------------------- the state

VARIABLES
    backend,    \* "chashmap" | "redis": the SessionManager behind Users.sess
    db,         \* the "users" collection: ObjectId -> User record
    nextId,     \* the next ObjectId the collection assigns
    sess,       \* the session store: ObjectId -> AuthKey [secret, expires]
    cookies,    \* cookies[c]: Option<Session>, the private cookie of client c
    now,        \* the clock, seconds since epoch
    deadline,   \* history: the instant each stored key expires (issuance time + TTL)
    sessUp,     \* the redis server answers (the in-process CHashMap always does)
    dbUp,       \* the MongoDB server answers
    pc,         \* pc[c]: where the request of client c stands inside Users::delete
    form        \* PolicySpec: the password under validation and the verdicts on it

vars == <<backend, db, nextId, sess, cookies, now, deadline, sessUp, dbUp, pc, form>>

\* The environment of a request that runs to completion: the servers stay as they
\* are and no other request is in flight.
env == <<sessUp, dbUp, pc>>
Idle == [op |-> "idle"]

\* No password is under validation.
NoForm == [password |-> <<>>, secure |-> None, violations |-> None]

\* ------------------------------------------------------------ finite maps

Put(m, k, v) == [x \in (DOMAIN m) \cup {k} |-> IF x = k THEN v ELSE m[x]]
Del(m, k) == [x \in (DOMAIN m) \ {k} |-> m[x]]
Restrict(m, S) == [x \in (DOMAIN m) \cap S |-> m[x]]

\* --------------------------------------------------------- password policy

\* forms::is_long and the three character-class validators: TRUE when Ok(()).
is_long(password) == ~(str_len(password) < 8)
has_uppercase(password) == \E i \in 1..Len(password) : password[i] \in UpperChars
has_lowercase(password) == \E i \in 1..Len(password) : password[i] \in LowerChars
has_number(password) == \E i \in 1..Len(password) : password[i] \in DigitChars

\* forms::is_secure: the four rules chained with `?`; the first failure is returned.
is_secure(password) ==
    IF ~is_long(password) THEN "long"
    ELSE IF ~has_uppercase(password) THEN "uppercase"
    ELSE IF ~has_lowercase(password) THEN "lowercase"
    ELSE IF ~has_number(password) THEN "number"
    ELSE "Ok"

\* Signup::validate (derive(Validate)): every validator of every field runs and the
\* failures are collected.
Signup_validate(email, password) ==
    (IF validate_email(email) THEN {} ELSE {"email"})
      \cup (IF is_long(password) THEN {} ELSE {"long"})
      \cup (IF has_number(password) THEN {} ELSE {"number"})
      \cup (IF has_lowercase(password) THEN {} ELSE {"lowercase"})
      \cup (IF has_uppercase(password) THEN {} ELSE {"uppercase"})

\* ------------------------------------------------------- credential hasher

\* argon2::hash_encoded(password, salt, config): the encoded digest names the
\* algorithm and the salt; the digest is a function of salt and password.
hash_encoded(password, salt) ==
    [alg |-> "argon2i", salt |-> salt, digest |-> <<salt, password>>]

\* argon2::verify_encoded(encoded, pwd): recompute with the encoded salt and compare.
verify_encoded(encoded, pwd) == encoded.digest = <<encoded.salt, pwd>>

\* ----------------------------------------------------------- session store

\* From<String> for AuthKey (key.into()): the default one-year expiry.
AuthKey_from(secret) == [expires |-> now + YEAR_IN_SECS, secret |-> secret]

\* C2 mutant: insert keeps the key already stored for id instead of replacing it.
Mut_CHashMap_insert(m, id, key) ==
    [res |-> "Ok", store |-> IF id \in DOMAIN m THEN m ELSE Put(m, id, AuthKey_from(key))]

\* C28 mutant: remove reports an error when there is no entry to remove.
Mut_CHashMap_remove(m, id) ==
    IF id \in DOMAIN m THEN [res |-> "Ok", store |-> Del(m, id)]
    ELSE [res |-> "UserNotFoundError", store |-> m]

\* SessionManager for CHashMap<ObjectId, AuthKey>.
CHashMap_insert(m, id, key) == [res |-> "Ok", store |-> Put(m, id, AuthKey_from(key))]
CHashMap_remove(m, id) == [res |-> "Ok", store |-> Del(m, id)]
CHashMap_get(m, id) == IF id \in DOMAIN m THEN Some(m[id].secret) ELSE None
CHashMap_insert_for(m, id, key, time) ==
    [res |-> "Ok", store |-> Put(m, id, [expires |-> time, secret |-> key])]

\* clear_expired for CHashMap: retain(|_, auth_key| auth_key.expires > time) with
\* time = now().
CHashMap_clear_expired(m) ==
    [res |-> "Ok", store |-> [x \in {y \in DOMAIN m : m[y].expires > now} |-> m[x]]]

\* redis SETEX key seconds value: get_connection()? or the command fails when the
\* server does not answer; the server rejects a non-positive expire time; otherwise
\* the key lives until now + seconds (expires is the server-side deadline).
Redis_set_ex(m, id, key, seconds) ==
    IF ~sessUp \/ seconds <= 0 THEN [res |-> "RedisError", store |-> m]
    ELSE [res |-> "Ok", store |-> Put(m, id, [expires |-> now + seconds, secret |-> key])]

\* SessionManager for redis::Client.
Redis_insert(m, id, key) == Redis_set_ex(m, id, key, YEAR_IN_SECS)
Redis_insert_for(m, id, key, time) == Redis_set_ex(m, id, key, time)
Redis_remove(m, id) ==
    IF ~sessUp THEN [res |-> "RedisError", store |-> m]
    ELSE [res |-> "Ok", store |-> Del(m, id)]
\* C25 mutant: get answers from the entries although the server does not.
Mut_Redis_get(m, id) == IF id \in DOMAIN m THEN Some(m[id].secret) ELSE None

Redis_get(m, id) == IF sessUp /\ id \in DOMAIN m THEN Some(m[id].secret) ELSE None

\* The keys redis has dropped once the clock reads t.
Redis_expire(m, t) == [x \in {y \in DOMAIN m : m[y].expires > t} |-> m[x]]

\* Box<dyn SessionManager>: dispatch on the backend behind Users.sess.
Sess_insert(id, key) ==
    IF backend = "chashmap" THEN CHashMap_insert(sess, id, key)
    ELSE Redis_insert(sess, id, key)
Sess_insert_for(id, key, time) ==
    IF backend = "chashmap" THEN CHashMap_insert_for(sess, id, key, time)
    ELSE Redis_insert_for(sess, id, key, time)
Sess_remove(id) ==
    IF backend = "chashmap" THEN CHashMap_remove(sess, id) ELSE Redis_remove(sess, id)
Sess_get(id) ==
    IF backend = "chashmap" THEN CHashMap_get(sess, id) ELSE Redis_get(sess, id)

\* -------------------------------------------------------------- repository

\* DBConnection for mongodb::Database.  A result is [res, val] or [res, db]; every
\* driver call fails with MongoDBError (passed on with `?`) when the server does not
\* answer.
Mongo_get_user_by_email(email) ==
    LET found == {i \in DOMAIN db : db[i].email = email}
    IN  IF ~dbUp THEN [res |-> "MongoDBError", val |-> None]
        ELSE IF found = {} THEN [res |-> "UserNotFoundError", val |-> None]
        ELSE [res |-> "Ok", val |-> Some(db[CHOOSE i \in found : TRUE])]

Mongo_get_user_by_id(user_id) ==
    IF ~dbUp THEN [res |-> "MongoDBError", val |-> None]
    ELSE IF user_id \in DOMAIN db THEN [res |-> "Ok", val |-> Some(db[user_id])]
    ELSE [res |-> "UserNotFoundError", val |-> None]

\* C14 mutant: a new record is stored as already verified.
Mut_Mongo_create_user(email, hash, token, is_admin) ==
    IF ~dbUp \/ \E i \in DOMAIN db : db[i].email = email
    THEN [res |-> "MongoDBError", db |-> db]
    ELSE [res |-> "Ok",
          db |-> Put(db, nextId, [id |-> nextId, email |-> email, is_admin |-> is_admin,
                                  is_verified |-> TRUE, verification_token |-> token,
                                  password |-> hash])]

\* create_user: the unique index on email rejects a duplicate (the driver's error
\* is passed on with `?`); otherwise the record is inserted under a fresh ObjectId.
Mongo_create_user(email, hash, token, is_admin) ==
    IF ~dbUp \/ \E i \in DOMAIN db : db[i].email = email
    THEN [res |-> "MongoDBError", db |-> db]
    ELSE [res |-> "Ok",
          db |-> Put(db, nextId, [id |-> nextId, email |-> email, is_admin |-> is_admin,
                                  is_verified |-> FALSE, verification_token |-> token,
                                  password |-> hash])]

\* C12 mutant: update_user replaces the record without the unique index.
Mut_Mongo_update_user(user) ==
    IF ~dbUp \/ user.id \notin DOMAIN db THEN [res |-> "Ok", db |-> db]
    ELSE [res |-> "Ok", db |-> Put(db, user.id, user)]

\* C33 mutant: update_user inserts the record when no record has its _id (upsert).
Mut_Mongo_update_user_upsert(user) ==
    IF ~dbUp THEN [res |-> "MongoDBError", db |-> db]
    ELSE IF \E i \in DOMAIN db : i # user.id /\ db[i].email = user.email
    THEN [res |-> "MongoDBError", db |-> db]
    ELSE [res |-> "Ok", db |-> Put(db, user.id, user)]

\* update_user: find_one_and_replace by _id; the unique index still applies.
Mongo_update_user(user) ==
    IF ~dbUp THEN [res |-> "MongoDBError", db |-> db]
    ELSE IF user.id \notin DOMAIN db THEN [res |-> "Ok", db |-> db]
    ELSE IF \E i \in DOMAIN db : i # user.id /\ db[i].email = user.email
    THEN [res |-> "MongoDBError", db |-> db]
    ELSE [res |-> "Ok", db |-> Put(db, user.id, user)]

Mongo_delete_user_by_id(user_id) ==
    IF ~dbUp THEN [res |-> "MongoDBError", db |-> db]
    ELSE [res |-> "Ok", db |-> Del(db, user_id)]

\* ------------------------------------------------------------------- Users

\* C1 mutant: any key authenticates once the store holds an entry for the id.
Mut_Users_is_auth(session) == IsSome(Sess_get(session.id))

\* Users::is_auth(&self, session)
Users_is_auth(session) ==
    LET option == Sess_get(session.id)
    IN  IF IsSome(option) THEN Unwrap(option) = session.auth_key ELSE FALSE

\* C7 mutant: a key is returned but never stored.
Mut_Users_set_auth_key(user_id, key) == [res |-> "Ok", store |-> sess, key |-> Some(key)]

\* Users::set_auth_key(user_id): `key` is the rand_string(15) drawn.
Users_set_auth_key(user_id, key) ==
    LET r == Sess_insert(user_id, key)
    IN  [res |-> r.res, store |-> r.store, key |-> IF r.res = "Ok" THEN Some(key) ELSE None]

\* Users::set_auth_key_for(user_id, time): `key` is the rand_string(10) drawn.
Users_set_auth_key_for(user_id, key, time) ==
    LET r == Sess_insert_for(user_id, key, time)
    IN  [res |-> r.res, store |-> r.store, key |-> IF r.res = "Ok" THEN Some(key) ELSE None]

\* C8 mutant: login issues a key without verifying the password.
Mut_Users_login(email, password, key) ==
    LET r == Mongo_get_user_by_email(email)
    IN  IF r.res # "Ok" THEN [res |-> "EmailDoesNotExist", store |-> sess, key |-> None]
        ELSE Users_set_auth_key(Unwrap(r.val).id, key)

\* Users::login(form): any failure of the lookup is mapped to EmailDoesNotExist.
Users_login(email, password, key) ==
    LET r == Mongo_get_user_by_email(email)
    IN  IF r.res # "Ok" THEN [res |-> "EmailDoesNotExist", store |-> sess, key |-> None]
        ELSE IF verify_encoded(Unwrap(r.val).password, password)
        THEN Users_set_auth_key(Unwrap(r.val).id, key)
        ELSE [res |-> "UnauthorizedError", store |-> sess, key |-> None]

\* Users::login_for(form, time): the lookup's error is passed on with `?`.
Users_login_for(email, password, key, time) ==
    LET r == Mongo_get_user_by_email(email)
    IN  IF r.res # "Ok" THEN [res |-> r.res, store |-> sess, key |-> None]
        ELSE IF verify_encoded(Unwrap(r.val).password, password)
        THEN Users_set_auth_key_for(Unwrap(r.val).id, key, time)
        ELSE [res |-> "UnauthorizedError", store |-> sess, key |-> None]

\* C3 mutant: logout leaves the key in the store.
Mut_Users_logout(session) == [res |-> "Ok", store |-> sess]

\* C27 mutant: logout removes the entry of the session's id whatever its key.
Mut_Users_logout_any(session) == Sess_remove(session.id)

\* Users::logout(session)
Users_logout(session) ==
    IF Users_is_auth(session) THEN Sess_remove(session.id)
    ELSE [res |-> "Ok", store |-> sess]

\* Users::create_user(email, password, is_admin): hash with a fresh salt and insert.
Users_create_user(email, password, is_admin, salt, token) ==
    Mongo_create_user(email, hash_encoded(password, salt), token, is_admin)

\* Users::signup(form): validate the form, then create_user(email, password, false).
\* The branch on self.mailer after a successful create_user has an empty body: with or
\* without a mailer nothing more is done.
Users_signup(email, password, salt, token) ==
    LET violations == Signup_validate(email, password)
    IN  IF violations # {}
        THEN [res |-> "FormValidationErrors", violations |-> violations, db |-> db]
        ELSE LET r == Users_create_user(email, password, FALSE, salt, token)
             IN  [res |-> r.res, violations |-> {}, db |-> r.db]

\* Users::modify(user)
Users_modify(user) == Mongo_update_user(user)

\* C17 mutant: the first statement of Users::delete reports Ok and removes nothing.
Mut_Users_delete_revoke(id) == [res |-> "Ok", store |-> sess]

\* Users::delete(id), first statement: self.sess.remove(id)?
Users_delete_revoke(id) == Sess_remove(id)

\* Users::delete(id), second statement: self.conn.delete_user_by_id(id).await?
Users_delete_record(id) == Mongo_delete_user_by_id(id)

\* C16 mutant: Users::delete revokes the session and leaves the record.
Mut_Users_delete(id) ==
    LET s == Users_delete_revoke(id)
    IN  [res |-> s.res, store |-> s.store, db |-> db]

\* Users::delete(id): remove the session key, then the record.
Users_delete(id) ==
    LET s == Users_delete_revoke(id)
    IN  IF s.res # "Ok" THEN [res |-> s.res, store |-> sess, db |-> db]
        ELSE LET d == Users_delete_record(id)
             IN  [res |-> d.res, store |-> s.store, db |-> d.db]

\* -------------------------------------------------------------------- User

\* C15 mutant: set_verified accepts any token.
Mut_User_set_verified(user, token) ==
    [res |-> "Ok", user |-> [user EXCEPT !.is_verified = TRUE]]

\* User::set_verified(token)
User_set_verified(user, token) ==
    IF user.verification_token = token
    THEN [res |-> "Ok", user |-> [user EXCEPT !.is_verified = TRUE]]
    ELSE [res |-> "VerificationTokenMismatch", user |-> user]

\* C21 mutant: set_password hashes the new password without asking is_secure.
Mut_User_set_password(user, new, salt) ==
    [res |-> "Ok", user |-> [user EXCEPT !.password = hash_encoded(new, salt)]]

\* User::set_password(new): is_secure(new)?, then the hash with a fresh salt.
User_set_password(user, new, salt) ==
    IF is_secure(new) # "Ok" THEN [res |-> "FormValidationError", user |-> user]
    ELSE [res |-> "Ok", user |-> [user EXCEPT !.password = hash_encoded(new, salt)]]

\* User::set_email(email)
User_set_email(user, email) ==
    IF validate_email(email) THEN [res |-> "Ok", user |-> [user EXCEPT !.email = email]]
    ELSE [res |-> "InvalidEmailAddressError", user |-> user]

\* TryFrom<User> for AdminUser
AdminUser_try_from(value) == IF value.is_admin THEN "Ok" ELSE "UnauthorizedError"

\* -------------------------------------------------------------------- Auth

\* Auth::is_auth: `session` is Auth.session, the Option<Session> of the request.
Auth_is_auth(session) ==
    IF IsSome(session) THEN Users_is_auth(Unwrap(session)) ELSE FALSE

\* C26 mutant: get_user looks the record up without asking is_auth.
Mut_Auth_get_user(session) ==
    IF ~IsSome(session) THEN None
    ELSE LET r == Mongo_get_user_by_id(Unwrap(session).id)
         IN  IF r.res = "Ok" THEN r.val ELSE None

\* Auth::get_user
Auth_get_user(session) ==
    IF ~Auth_is_auth(session) THEN None
    ELSE LET r == Mongo_get_user_by_id(Unwrap(session).id)
         IN  IF r.res = "Ok" THEN r.val ELSE None

\* FromRequest for User, UnverifiedUser and AdminUser: the guard's outcome.
User_from_request(session) ==
    LET user == Auth_get_user(session)
    IN  IF IsSome(user)
        THEN IF Unwrap(user).is_verified THEN "Success" ELSE "UnverifiedError"
        ELSE "UnauthorizedError"

UnverifiedUser_from_request(session) ==
    IF IsSome(Auth_get_user(session)) THEN "Success" ELSE "UnauthorizedError"

\* C6 mutant: the admin guard forgets the is_verified flag.
Mut_AdminUser_from_request(session) ==
    LET user == Auth_get_user(session)
    IN  IF IsSome(user) /\ Unwrap(user).is_admin THEN "Success" ELSE "UnauthorizedError"

AdminUser_from_request(session) ==
    LET user == Auth_get_user(session)
    IN  IF IsSome(user) /\ Unwrap(user).is_admin /\ Unwrap(user).is_verified
        THEN "Success" ELSE "UnauthorizedError"

\* The Session a successful login puts in the private cookie.
NewSession(user, key) ==
    [id |-> user.id, email |-> user.email, auth_key |-> key, time_stamp |-> now]

\* FromRequest for Auth: the session of the request is the one in the client's
\* private cookie "rocket_auth_nosql".
Auth_from_request(c) == cookies[c]

\* Auth::login(form): Users::login, then the user is read again by email and the
\* Session is put in the private cookie.
Auth_login(c, email, password, key) ==
    LET r == Users_login(email, password, key)
        u == Mongo_get_user_by_email(email)
    IN  IF r.res # "Ok" THEN [res |-> r.res, store |-> r.store, cookies |-> cookies]
        ELSE IF u.res # "Ok" THEN [res |-> u.res, store |-> r.store, cookies |-> cookies]
        ELSE [res |-> "Ok", store |-> r.store,
              cookies |-> [cookies EXCEPT ![c] = Some(NewSession(Unwrap(u.val), key))]]

\* Auth::login_for(form, time)
Auth_login_for(c, email, password, key, time) ==
    LET r == Users_login_for(email, password, key, time)
        u == Mongo_get_user_by_email(email)
    IN  IF r.res # "Ok" THEN [res |-> r.res, store |-> r.store, cookies |-> cookies]
        ELSE IF u.res # "Ok" THEN [res |-> u.res, store |-> r.store, cookies |-> cookies]
        ELSE [res |-> "Ok", store |-> r.store,
              cookies |-> [cookies EXCEPT ![c] = Some(NewSession(Unwrap(u.val), key))]]

\* Auth::signup(form): the result of Users::signup (inner) is dropped and Ok(()) is
\* returned.
Auth_signup(email, password, salt, token) ==
    LET r == Users_signup(email, password, salt, token)
    IN  [res |-> "Ok", inner |-> r.res, violations |-> r.violations, db |-> r.db]

\* Auth::logout(): get_session()?, Users::logout (its result dropped), cookie removed.
Auth_logout(c) ==
    LET session == Auth_from_request(c)
    IN  IF ~IsSome(session)
        THEN [res |-> "UnauthenticatedError", store |-> sess, cookies |-> cookies]
        ELSE [res |-> "Ok", store |-> Users_logout(Unwrap(session)).store,
              cookies |-> [cookies EXCEPT ![c] = None]]

\* Auth::verify_account(token): the result of Users::modify is dropped.
Auth_verify_account(c, token) ==
    LET session == Auth_from_request(c)
        got == Mongo_get_user_by_id(Unwrap(session).id)
        set == User_set_verified(Unwrap(got.val), token)
    IN  IF ~Auth_is_auth(session) THEN [res |-> "VerificationTokenMismatch", db |-> db]
        ELSE IF got.res # "Ok" THEN [res |-> got.res, db |-> db]
        ELSE IF set.res # "Ok" THEN [res |-> set.res, db |-> db]
        ELSE [res |-> "Ok", db |-> Users_modify(set.user).db]

\* C20 mutant: delete acts on the session of the request without asking is_auth.
Mut_Auth_delete(c) ==
    LET session == Auth_from_request(c)
        r == Users_delete(Unwrap(session).id)
    IN  IF IsSome(session)
        THEN [res |-> "Ok", store |-> r.store, db |-> r.db,
              cookies |-> [cookies EXCEPT ![c] = None]]
        ELSE [res |-> "UnauthenticatedError", store |-> sess, db |-> db,
              cookies |-> cookies]

\* Auth::delete(): Users::delete (its result dropped), cookie removed.
Auth_delete(c) ==
    LET session == Auth_from_request(c)
        r == Users_delete(Unwrap(session).id)
    IN  IF Auth_is_auth(session)
        THEN [res |-> "Ok", store |-> r.store, db |-> r.db,
              cookies |-> [cookies EXCEPT ![c] = None]]
        ELSE [res |-> "UnauthenticatedError", store |-> sess, db |-> db,
              cookies |-> cookies]

\* C22 mutant: change_password reports Ok and persists nothing.
Mut_Auth_change_password(c, password, salt) ==
    IF ~Auth_is_auth(Auth_from_request(c)) THEN [res |-> "UnauthorizedError", db |-> db]
    ELSE IF is_secure(password) # "Ok" THEN [res |-> "FormValidationError", db |-> db]
    ELSE [res |-> "Ok", db |-> db]

\* Auth::change_password(password): the result of Users::modify is dropped.
Auth_change_password(c, password, salt) ==
    LET session == Auth_from_request(c)
        got == Mongo_get_user_by_id(Unwrap(session).id)
        set == User_set_password(Unwrap(got.val), password, salt)
    IN  IF ~Auth_is_auth(session) THEN [res |-> "UnauthorizedError", db |-> db]
        ELSE IF got.res # "Ok" THEN [res |-> got.res, db |-> db]
        ELSE IF set.res # "Ok" THEN [res |-> set.res, db |-> db]
        ELSE [res |-> "Ok", db |-> Users_modify(set.user).db]

\* Auth::change_email(email): the email is validated before the record is read and
\* assigned directly; the result of Users::modify is dropped.
Auth_change_email(c, email) ==
    LET session == Auth_from_request(c)
        got == Mongo_get_user_by_id(Unwrap(session).id)
    IN  IF ~Auth_is_auth(session) THEN [res |-> "UnauthorizedError", db |-> db]
        ELSE IF ~validate_email(email) THEN [res |-> "InvalidEmailAddressError", db |-> db]
        ELSE IF got.res # "Ok" THEN [res |-> got.res, db |-> db]
        ELSE [res |-> "Ok",
              db |-> Users_modify([Unwrap(got.val) EXCEPT !.email = email]).db]

\* ----------------------------------------------------------------- actions

\* The id of the record with this email (the email is its unique key).
UserIdOf(email) == Unwrap(Mongo_get_user_by_email(email).val).id

Init ==
    /\ backend \in {"chashmap", "redis"}
    /\ db = <<>>
    /\ nextId = 1
    /\ sess = <<>>
    /\ cookies = [c \in Clients |-> None]
    /\ now = 0
    /\ deadline = <<>>
    /\ sessUp = TRUE
    /\ dbUp = TRUE
    /\ pc = [c \in Clients |-> Idle]
    /\ form = NoForm

\* C13 mutant: a successful signup also stores a key for the new user.
Mut_Signup(c, email, password) ==
    \E salt \in rand_salt(30), token \in NewTokens, key \in rand_string(15) :
        LET r == Auth_signup(email, password, salt, token)
        IN  /\ r.inner = "Ok" => nextId <= MaxUsers
            /\ db' = r.db
            /\ nextId' = IF r.inner = "Ok" THEN nextId + 1 ELSE nextId
            /\ sess' = IF r.inner = "Ok" THEN Sess_insert(nextId, key).store ELSE sess
            /\ UNCHANGED <<env, form, backend, cookies, now, deadline>>

Signup(c, email, password) ==
    \E salt \in rand_salt(30), token \in NewTokens :
        LET r == Auth_signup(email, password, salt, token)
        IN  /\ r.inner = "Ok" => nextId <= MaxUsers
            /\ db' = r.db
            /\ nextId' = IF r.inner = "Ok" THEN nextId + 1 ELSE nextId
            /\ UNCHANGED <<env, form, backend, sess, cookies, now, deadline>>

\* Users::create_user(email, password, is_admin), called on the managed Users.
CreateUser(email, password, is_admin) ==
    \E salt \in rand_salt(30), token \in NewTokens :
        LET r == Users_create_user(email, password, is_admin, salt, token)
        IN  /\ r.res = "Ok" => nextId <= MaxUsers
            /\ db' = r.db
            /\ nextId' = IF r.res = "Ok" THEN nextId + 1 ELSE nextId
            /\ UNCHANGED <<env, form, backend, sess, cookies, now, deadline>>

\* Auth::login with `key` the string rand_string(15) returns.
LoginKey(c, email, password, key) ==
    LET r == Auth_login(c, email, password, key)
    IN  /\ sess' = r.store
        /\ cookies' = r.cookies
        /\ deadline' = IF Users_login(email, password, key).res = "Ok"
                       THEN Put(deadline, UserIdOf(email), now + YEAR_IN_SECS)
                       ELSE deadline
        /\ UNCHANGED <<env, form, backend, db, nextId, now>>

Login(c, email, password) ==
    \E key \in rand_string(15) : LoginKey(c, email, password, key)

\* Auth::login_for with `key` the string rand_string(10) returns.
LoginForKey(c, email, password, key, time) ==
    LET r == Auth_login_for(c, email, password, key, time)
    IN  /\ sess' = r.store
        /\ cookies' = r.cookies
        /\ deadline' = IF Users_login_for(email, password, key, time).res = "Ok"
                       THEN Put(deadline, UserIdOf(email), now + time)
                       ELSE deadline
        /\ UNCHANGED <<env, form, backend, db, nextId, now>>

LoginFor(c, email, password, time) ==
    \E key \in rand_string(10) : LoginForKey(c, email, password, key, time)

Logout(c) ==
    LET r == Auth_logout(c)
    IN  /\ sess' = r.store
        /\ cookies' = r.cookies
        /\ deadline' = Restrict(deadline, DOMAIN r.store)
        /\ UNCHANGED <<env, form, backend, db, nextId, now>>

VerifyAccount(c, token) ==
    /\ db' = Auth_verify_account(c, token).db
    /\ UNCHANGED <<env, form, backend, nextId, sess, cookies, now, deadline>>

Delete(c) ==
    LET r == Auth_delete(c)
    IN  /\ sess' = r.store
        /\ db' = r.db
        /\ cookies' = r.cookies
        /\ deadline' = Restrict(deadline, DOMAIN r.store)
        /\ UNCHANGED <<env, form, backend, nextId, now>>

\* C38 mutant: a password change that is persisted also revokes the user's key.
Mut_ChangePassword(c, password) ==
    \E salt \in rand_salt(10) :
        LET r == Auth_change_password(c, password, salt)
        IN  /\ db' = r.db
            /\ sess' = IF r.db # db THEN Del(sess, Unwrap(cookies[c]).id) ELSE sess
            /\ deadline' = Restrict(deadline, DOMAIN sess')
            /\ UNCHANGED <<env, form, backend, nextId, cookies, now>>

ChangePassword(c, password) ==
    \E salt \in rand_salt(10) :
        /\ db' = Auth_change_password(c, password, salt).db
        /\ UNCHANGED <<env, form, backend, nextId, sess, cookies, now, deadline>>

ChangeEmail(c, email) ==
    /\ db' = Auth_change_email(c, email).db
    /\ UNCHANGED <<env, form, backend, nextId, sess, cookies, now, deadline>>

\* Users::delete(id) called by the application for an existing user.
UsersDelete(id) ==
    LET r == Users_delete(id)
    IN  /\ id \in DOMAIN db
        /\ sess' = r.store
        /\ db' = r.db
        /\ deadline' = Restrict(deadline, DOMAIN r.store)
        /\ UNCHANGED <<env, form, backend, nextId, cookies, now>>

\* Users::modify(&user) called by the application with a record it read by id and
\* gave another email with User::set_email.
UsersModify(id, email) ==
    LET got == Mongo_get_user_by_id(id)
        set == User_set_email(Unwrap(got.val), email)
    IN  /\ got.res = "Ok"
        /\ db' = IF set.res = "Ok" THEN Users_modify(set.user).db ELSE db
        /\ UNCHANGED <<env, form, backend, nextId, sess, cookies, now, deadline>>

\* Time passes; redis drops the keys whose expire time has come.
Tick(t) ==
    /\ t > now
    /\ now' = t
    /\ sess' = IF backend = "redis" THEN Redis_expire(sess, t) ELSE sess
    /\ deadline' = Restrict(deadline, DOMAIN sess')
    /\ UNCHANGED <<env, form, backend, db, nextId, cookies>>

\* The inputs the operations are called with.  Signup forms carry any email and
\* password; create_user is called the way the documentation creates an admin.
SignupEmails == Emails
CreateEmails == {"dup@x.com"}
CreatePasswords == {PwShort1}
CreateAdmin == {TRUE}

Next ==
    \/ \E c \in Clients, email \in SignupEmails, password \in Passwords :
           Signup(c, email, password)
    \/ \E email \in CreateEmails, password \in CreatePasswords, is_admin \in CreateAdmin :
           CreateUser(email, password, is_admin)
    \/ \E c \in Clients, email \in Emails, password \in Passwords :
           Login(c, email, password)
    \/ \E c \in Clients, email \in Emails, password \in Passwords, time \in TTLs :
           LoginFor(c, email, password, time)
    \/ \E c \in Clients : Logout(c)
    \/ \E c \in Clients, token \in Tokens : VerifyAccount(c, token)
    \/ \E c \in Clients : Delete(c)
    \/ \E t \in Times : Tick(t)

Spec == Init /\ [][Next]_vars

\* Auth::delete step by step.  DeleteBegin: is_auth() holds and get_session() gives
\* the id.  DeleteRevoke: the first statement of Users::delete; when it fails,
\* Users::delete returns, Auth::delete drops the error and removes the cookie.
\* DeleteRecord: the second statement, then the cookie is removed.
AllIdle == \A c \in Clients : pc[c] = Idle

DeleteBegin(c) ==
    /\ AllIdle
    /\ Auth_is_auth(Auth_from_request(c))
    /\ pc' = [pc EXCEPT ![c] = [op |-> "revoke", id |-> Unwrap(Auth_from_request(c)).id]]
    /\ UNCHANGED <<form, backend, db, nextId, sess, cookies, now, deadline, sessUp, dbUp>>

DeleteRevoke(c) ==
    /\ pc[c].op = "revoke"
    /\ LET r == Users_delete_revoke(pc[c].id)
       IN  IF r.res = "Ok"
           THEN /\ sess' = r.store
                /\ deadline' = Restrict(deadline, DOMAIN r.store)
                /\ pc' = [pc EXCEPT ![c] = [op |-> "record", id |-> pc[c].id]]
                /\ UNCHANGED cookies
           ELSE /\ cookies' = [cookies EXCEPT ![c] = None]
                /\ pc' = [pc EXCEPT ![c] = Idle]
                /\ UNCHANGED <<sess, deadline>>
    /\ UNCHANGED <<form, backend, db, nextId, now, sessUp, dbUp>>

DeleteRecord(c) ==
    /\ pc[c].op = "record"
    /\ db' = Users_delete_record(pc[c].id).db
    /\ cookies' = [cookies EXCEPT ![c] = None]
    /\ pc' = [pc EXCEPT ![c] = Idle]
    /\ UNCHANGED <<form, backend, nextId, sess, now, deadline, sessUp, dbUp>>

\* The server process dies in the middle of a delete: the request is gone, the
\* client keeps its cookie.
Crash(c) ==
    /\ pc[c] # Idle
    /\ pc' = [pc EXCEPT ![c] = Idle]
    /\ UNCHANGED <<form, backend, db, nextId, sess, cookies, now, deadline, sessUp, dbUp>>

\* The redis server or the MongoDB server stops or resumes answering.
SessFault ==
    /\ backend = "redis"
    /\ sessUp' = ~sessUp
    /\ UNCHANGED <<form, backend, db, nextId, sess, cookies, now, deadline, dbUp, pc>>

DbFault ==
    /\ dbUp' = ~dbUp
    /\ UNCHANGED <<form, backend, db, nextId, sess, cookies, now, deadline, sessUp, pc>>

\* A delete in steps, alone in flight, with servers that fail and a process that
\* crashes; signup and login run to completion between deletes.
DeleteNext ==
    \/ \E c \in Clients, email \in SignupEmails, password \in Passwords :
           AllIdle /\ Signup(c, email, password)
    \/ \E c \in Clients, email \in Emails, password \in Passwords :
           AllIdle /\ Login(c, email, password)
    \/ \E c \in Clients : DeleteBegin(c)
    \/ \E c \in Clients : DeleteRevoke(c)
    \/ \E c \in Clients : DeleteRecord(c)
    \/ \E c \in Clients : Crash(c)
    \/ SessFault
    \/ DbFault

DeleteSpec == Init /\ [][DeleteNext]_vars

\* Account management: every operation of Auth and Users, the clock standing still.
AccountNext ==
    \/ \E c \in Clients, email \in SignupEmails, password \in Passwords :
           Signup(c, email, password)
    \/ \E email \in CreateEmails, password \in CreatePasswords, is_admin \in CreateAdmin :
           CreateUser(email, password, is_admin)
    \/ \E c \in Clients, email \in Emails, password \in Passwords :
           Login(c, email, password)
    \/ \E c \in Clients, email \in Emails, password \in Passwords, time \in TTLs :
           LoginFor(c, email, password, time)
    \/ \E c \in Clients : Logout(c)
    \/ \E c \in Clients, token \in Tokens : VerifyAccount(c, token)
    \/ \E c \in Clients : Delete(c)
    \/ \E c \in Clients, password \in Passwords : ChangePassword(c, password)
    \/ \E c \in Clients, email \in Emails : ChangeEmail(c, email)
    \/ \E id \in Ids : UsersDelete(id)
    \/ \E id \in Ids, email \in Emails : UsersModify(id, email)

AccountSpec == Init /\ [][AccountNext]_vars

\* The password policy on its own.  A form arrives with any password of at most
\* MaxPwLen characters over an uppercase letter, a lowercase ASCII letter, a digit
\* and a lowercase two-byte letter; is_secure and Signup::validate are applied to it.
PolicyChars == {"A", "b", "1", "U+00E9"}
PolicyPasswords == UNION {[1..n -> PolicyChars] : n \in 0..MaxPwLen}

PolicyInit ==
    /\ backend = "chashmap"
    /\ db = <<>>
    /\ nextId = 1
    /\ sess = <<>>
    /\ cookies = [c \in Clients |-> None]
    /\ now = 0
    /\ deadline = <<>>
    /\ sessUp = TRUE
    /\ dbUp = TRUE
    /\ pc = [c \in Clients |-> Idle]
    /\ \E password \in PolicyPasswords :
           form = [password |-> password, secure |-> None, violations |-> None]

\* is_secure(&password), as User::set_password calls it.
IsSecure ==
    /\ form.secure = None
    /\ form' = [form EXCEPT !.secure = Some(is_secure(form.password))]
    /\ UNCHANGED <<env, backend, db, nextId, sess, cookies, now, deadline>>

\* Signup::validate() on a form with this password and a well-formed email.
Validate(email) ==
    /\ form.violations = None
    /\ form' = [form EXCEPT !.violations = Some(Signup_validate(email, form.password))]
    /\ UNCHANGED <<env, backend, db, nextId, sess, cookies, now, deadline>>

PolicyNext ==
    \/ IsSecure
    \/ \E email \in ValidEmails : Validate(email)

PolicySpec == PolicyInit /\ [][PolicyNext]_vars

\* Auth::logout statement by statement, while the other client logs in.
\* LogoutBegin: get_session()? and the is_auth test of Users::logout; when the test
\* fails logout removes nothing and the cookie is removed at once.
LogoutBegin(c) ==
    /\ pc[c] = Idle
    /\ IsSome(Auth_from_request(c))
    /\ LET session == Unwrap(Auth_from_request(c))
       IN  IF Users_is_auth(session)
           THEN /\ pc' = [pc EXCEPT ![c] = [op |-> "logout_remove", id |-> session.id]]
                /\ UNCHANGED cookies
           ELSE /\ cookies' = [cookies EXCEPT ![c] = None]
                /\ UNCHANGED pc
    /\ UNCHANGED <<form, backend, db, nextId, sess, now, deadline, sessUp, dbUp>>

\* LogoutRemove: self.sess.remove(session.id)? of Users::logout, then the cookie is
\* removed.
LogoutRemove(c) ==
    /\ pc[c].op = "logout_remove"
    /\ sess' = Sess_remove(pc[c].id).store
    /\ deadline' = Restrict(deadline, DOMAIN sess')
    /\ cookies' = [cookies EXCEPT ![c] = None]
    /\ pc' = [pc EXCEPT ![c] = Idle]
    /\ UNCHANGED <<form, backend, db, nextId, now, sessUp, dbUp>>

LogoutNext ==
    \/ \E c \in Clients, email \in ValidEmails :
           AllIdle /\ Signup(c, email, PwAbc12345)
    \/ \E c \in Clients, email \in ValidEmails :
           pc[c] = Idle /\ Login(c, email, PwAbc12345)
    \/ \E c \in Clients, email \in ValidEmails, time \in TTLs :
           pc[c] = Idle /\ LoginFor(c, email, PwAbc12345, time)
    \/ \E c \in Clients : LogoutBegin(c)
    \/ \E c \in Clients : LogoutRemove(c)

LogoutSpec == Init /\ [][LogoutNext]_vars

\* change_password, verify_account and change_email in two steps: the record is read
\* with get_by_id and one field is set on the copy (the request then holds `user`);
\* Users::modify writes the whole copy back.  A request that fails before the write
\* changes nothing and is no step.
ModifyPending(c, user) ==
    /\ pc[c] = Idle
    /\ pc' = [pc EXCEPT ![c] = [op |-> "modify", user |-> user]]
    /\ UNCHANGED <<form, backend, db, nextId, sess, cookies, now, deadline, sessUp, dbUp>>

ChangePasswordRead(c, password) ==
    \E salt \in rand_salt(10) :
        LET got == Mongo_get_user_by_id(Unwrap(Auth_from_request(c)).id)
            set == User_set_password(Unwrap(got.val), password, salt)
        IN  /\ Auth_is_auth(Auth_from_request(c))
            /\ got.res = "Ok"
            /\ set.res = "Ok"
            /\ ModifyPending(c, set.user)

VerifyAccountRead(c, token) ==
    LET got == Mongo_get_user_by_id(Unwrap(Auth_from_request(c)).id)
        set == User_set_verified(Unwrap(got.val), token)
    IN  /\ Auth_is_auth(Auth_from_request(c))
        /\ got.res = "Ok"
        /\ set.res = "Ok"
        /\ ModifyPending(c, set.user)

ChangeEmailRead(c, email) ==
    LET got == Mongo_get_user_by_id(Unwrap(Auth_from_request(c)).id)
    IN  /\ Auth_is_auth(Auth_from_request(c))
        /\ validate_email(email)
        /\ got.res = "Ok"
        /\ ModifyPending(c, [Unwrap(got.val) EXCEPT !.email = email])

\* self.users.modify(&user).await, its result dropped.
ModifyWrite(c) ==
    /\ pc[c].op = "modify"
    /\ db' = Users_modify(pc[c].user).db
    /\ pc' = [pc EXCEPT ![c] = Idle]
    /\ UNCHANGED <<form, backend, nextId, sess, cookies, now, deadline, sessUp, dbUp>>

UpdateNext ==
    \/ \E c \in Clients, email \in ValidEmails :
           AllIdle /\ Signup(c, email, PwAbc12345)
    \/ \E c \in Clients, email \in ValidEmails :
           pc[c] = Idle /\ Login(c, email, PwAbc12345)
    \/ \E c \in Clients, password \in Passwords : ChangePasswordRead(c, password)
    \/ \E c \in Clients, token \in Tokens : VerifyAccountRead(c, token)
    \/ \E c \in Clients, email \in Emails : ChangeEmailRead(c, email)
    \/ \E c \in Clients : ModifyWrite(c)

UpdateSpec == Init /\ [][UpdateNext]_vars

\* Auth::delete statement by statement while the other client logs in: DeleteStart
\* is DeleteBegin with other requests allowed in flight.
DeleteStart(c) ==
    /\ pc[c] = Idle
    /\ Auth_is_auth(Auth_from_request(c))
    /\ pc' = [pc EXCEPT ![c] = [op |-> "revoke", id |-> Unwrap(Auth_from_request(c)).id]]
    /\ UNCHANGED <<form, backend, db, nextId, sess, cookies, now, deadline, sessUp, dbUp>>

OrphanNext ==
    \/ \E c \in Clients, email \in ValidEmails :
           AllIdle /\ Signup(c, email, PwAbc12345)
    \/ \E c \in Clients, email \in ValidEmails :
           pc[c] = Idle /\ Login(c, email, PwAbc12345)
    \/ \E c \in Clients, email \in ValidEmails, time \in TTLs :
           pc[c] = Idle /\ LoginFor(c, email, PwAbc12345, time)
    \/ \E c \in Clients : DeleteStart(c)
    \/ \E c \in Clients : DeleteRevoke(c)
    \/ \E c \in Clients : DeleteRecord(c)

OrphanSpec == Init /\ [][OrphanNext]_vars

\* Auth::login and Auth::login_for statement by statement, one login in flight at a
\* time, with a database that stops answering.  LoginIssue / LoginForIssue:
\* self.users.login(form).await? succeeded and the key is stored; the request now
\* stands before get_by_email.  `before` is history: the store when the request
\* arrived.  A Users::login that fails returns its error with nothing changed and
\* is no step.
LoginPending(c, email, r) ==
    /\ AllIdle
    /\ r.res = "Ok"
    /\ sess' = r.store
    /\ pc' = [pc EXCEPT ![c] = [op |-> "login_lookup", email |-> email,
                                key |-> Unwrap(r.key), before |-> sess]]
    /\ UNCHANGED <<form, backend, db, nextId, cookies, now, sessUp, dbUp>>

LoginIssue(c, email, password) ==
    \E key \in rand_string(15) :
        /\ LoginPending(c, email, Users_login(email, password, key))
        /\ deadline' = Put(deadline, UserIdOf(email), now + YEAR_IN_SECS)

LoginForIssue(c, email, password, time) ==
    \E key \in rand_string(10) :
        /\ LoginPending(c, email, Users_login_for(email, password, key, time))
        /\ deadline' = Put(deadline, UserIdOf(email), now + time)

\* LoginLookup: self.users.get_by_email(&form.email).await?; on Ok the Session is put
\* in the private cookie, on an error the error is returned.
LoginLookup(c) ==
    /\ pc[c].op = "login_lookup"
    /\ LET u == Mongo_get_user_by_email(pc[c].email)
       IN  cookies' = IF u.res = "Ok"
                      THEN [cookies EXCEPT ![c] = Some(NewSession(Unwrap(u.val), pc[c].key))]
                      ELSE cookies
    /\ pc' = [pc EXCEPT ![c] = Idle]
    /\ UNCHANGED <<form, backend, db, nextId, sess, now, deadline, sessUp, dbUp>>

LoginNext ==
    \/ \E c \in Clients, email \in ValidEmails, password \in Passwords :
           AllIdle /\ Signup(c, email, password)
    \/ \E c \in Clients, email \in Emails, password \in Passwords :
           LoginIssue(c, email, password)
    \/ \E c \in Clients, email \in Emails, password \in Passwords, time \in TTLs :
           LoginForIssue(c, email, password, time)
    \/ \E c \in Clients : LoginLookup(c)
    \/ DbFault

LoginSpec == Init /\ [][LoginNext]_vars

\* ------------------------------------------------------------------ claims

\* Every key rand_string can issue, and one no login ever issued (a tampered cookie).
ForgedKey == [len |-> 15, n |-> 0]
AllKeys == rand_string(15) \cup rand_string(10) \cup {ForgedKey}

\* The sessions a request may carry: the cookies the clients hold and, for every
\* user id and key, a session with that id and key.
HeldSessions == {Unwrap(cookies[c]) : c \in {x \in Clients : IsSome(cookies[x])}}
ProbeSessions ==
    {[id |-> i, email |-> "a@x.com", auth_key |-> k, time_stamp |-> 0] :
        i \in Ids, k \in AllKeys}
Sessions == HeldSessions \cup ProbeSessions

\* The store holds an entry for the session's id whose secret is the session's key.
StoreMatches(s) == s.id \in DOMAIN sess /\ sess[s.id].secret = s.auth_key

\* C1: in every reachable state a session authenticates if and only if the session
\* store holds an entry for its id whose secret equals its auth_key; an absent entry,
\* a different secret or a missing client session yields false.
C1_IsAuthIffStoredKeyMatches ==
    /\ \A s \in Sessions : Users_is_auth(s) <=> StoreMatches(s)
    /\ \A c \in Clients :
           Auth_is_auth(cookies[c]) <=> (IsSome(cookies[c]) /\ StoreMatches(Unwrap(cookies[c])))
    /\ ~Auth_is_auth(None)

\* C1 witness: one client's session authenticates while another client holds a
\* session of the same user with a different key, which does not.
C1_Witness ==
    \E c1, c2 \in Clients :
        /\ IsSome(cookies[c1]) /\ IsSome(cookies[c2])
        /\ Unwrap(cookies[c1]).id = Unwrap(cookies[c2]).id
        /\ Unwrap(cookies[c1]).auth_key # Unwrap(cookies[c2]).auth_key
        /\ Auth_is_auth(cookies[c1])
        /\ ~Auth_is_auth(cookies[c2])

\* A step in which a login or login_for of client c succeeds: its cookie then holds
\* the session that was returned.
LoginStepBy(c) ==
    /\ sess' # sess \/ cookies' # cookies
    /\ db' = db /\ now' = now
    /\ IsSome(cookies'[c])
    /\ \E password \in Passwords :
           LET email == Unwrap(cookies'[c]).email
               key == Unwrap(cookies'[c]).auth_key
           IN  \/ /\ key \in rand_string(15)
                  /\ Auth_login(c, email, password, key).res = "Ok"
                  /\ LoginKey(c, email, password, key)
               \/ /\ key \in rand_string(10)
                  /\ \E time \in TTLs :
                         /\ Auth_login_for(c, email, password, key, time).res = "Ok"
                         /\ LoginForKey(c, email, password, key, time)

\* C2: single session per user.  At every moment at most one key authenticates for a
\* user id, and once a login or login_for issues a key for a user, every session of
\* that user holding another key fails is_authenticated.
C2_AtMostOneKey ==
    \A s1, s2 \in Sessions :
        (s1.id = s2.id /\ Users_is_auth(s1) /\ Users_is_auth(s2)) => s1.auth_key = s2.auth_key

C2_NewKeyInvalidatesOld ==
    \A c \in Clients :
        LoginStepBy(c) =>
            \A id \in Ids, key \in AllKeys :
                (Unwrap(cookies'[c]).id = id /\ Unwrap(cookies'[c]).auth_key = key) =>
                    (\A s \in Sessions : (s.id = id /\ s.auth_key # key) => ~Users_is_auth(s))'

C2_SingleSessionPerUser == [](C2_AtMostOneKey) /\ [][C2_NewKeyInvalidatesOld]_vars

\* C2 witness: two clients logged the same user in, with different keys; the later
\* key authenticates and the earlier one does not.
C2_Witness ==
    \E c1, c2 \in Clients :
        /\ IsSome(cookies[c1]) /\ IsSome(cookies[c2])
        /\ Unwrap(cookies[c1]).id = Unwrap(cookies[c2]).id
        /\ Unwrap(cookies[c1]).auth_key.len = 15
        /\ Unwrap(cookies[c2]).auth_key.len = 10
        /\ ~Auth_is_auth(cookies[c1])
        /\ Auth_is_auth(cookies[c2])

\* The session a request carries, or none.
OptSessions == {None} \cup {Some(s) : s \in Sessions}

\* C3: logout invalidation.  When logout completes for a client whose session was
\* authenticated, that session no longer authenticates and get_user resolves no user
\* for it; and a session that does not authenticate starts to authenticate again only
\* in a step where a login or login_for issues a key for its user.
C3_LogoutInvalidates ==
    \A c \in Clients :
        \A s \in {cookies[c]} :
            (Auth_is_auth(s) /\ cookies'[c] = None /\ Logout(c)) =>
                (~Auth_is_auth(s) /\ Auth_get_user(s) = None)'

C3_StaysInvalid ==
    \A s \in Sessions :
        (~Users_is_auth(s) /\ (Users_is_auth(s))') =>
            \E c \in Clients : LoginStepBy(c) /\ Unwrap(cookies'[c]).id = s.id

C3_LogoutInvalidation == [][C3_LogoutInvalidates /\ C3_StaysInvalid]_vars

\* C3 witness: the in-memory store, where no key ever lapses: a user who still has a
\* record was logged in (a client holds a session of theirs) and was then logged out,
\* so the store holds no key for them and the held session does not authenticate.
C3_Witness ==
    /\ backend = "chashmap"
    /\ \E c \in Clients :
           /\ IsSome(cookies[c])
           /\ Unwrap(cookies[c]).id \in DOMAIN db
           /\ Unwrap(cookies[c]).id \notin DOMAIN sess
           /\ ~Auth_is_auth(cookies[c])
           /\ Auth_get_user(cookies[c]) = None

\* C4: a session whose key has passed its expiry does not authenticate: once the
\* clock is past the instant at which the key stored for a user runs out (its issue
\* time plus the TTL of login_for, or plus one year for login), is_auth is false for
\* every session of that user, with either store.
C4_ExpiredKeyDoesNotAuthenticate ==
    \A s \in Sessions :
        (s.id \in DOMAIN deadline /\ now > deadline[s.id]) => ~Users_is_auth(s)

\* C5: Admin requires is_admin and is_verified: the AdminUser guard admits a request
\* only when the resolved user has both flags, and the conversion of a User into an
\* AdminUser succeeds only for a user with both flags.
C5_AdminRequiresAdminAndVerified ==
    /\ \A o \in OptSessions :
           AdminUser_from_request(o) = "Success" =>
               /\ IsSome(Auth_get_user(o))
               /\ Unwrap(Auth_get_user(o)).is_admin
               /\ Unwrap(Auth_get_user(o)).is_verified
    /\ \A id \in DOMAIN db :
           AdminUser_try_from(db[id]) = "Ok" => (db[id].is_admin /\ db[id].is_verified)

\* The class the flags of the resolved user call for.
RoleOf(o) ==
    LET user == Auth_get_user(o)
    IN  IF ~IsSome(user) THEN "Anonymous"
        ELSE IF ~Unwrap(user).is_verified THEN "Authenticated-Unverified"
        ELSE IF ~Unwrap(user).is_admin THEN "Authenticated-Verified"
        ELSE "Admin"

\* The classes the three guards put a request in.
GuardClasses(o) ==
    {cls \in {"Anonymous", "Authenticated-Unverified", "Authenticated-Verified", "Admin"} :
        \/ cls = "Admin" /\ AdminUser_from_request(o) = "Success"
        \/ /\ cls = "Authenticated-Verified"
           /\ User_from_request(o) = "Success"
           /\ AdminUser_from_request(o) # "Success"
        \/ /\ cls = "Authenticated-Unverified"
           /\ UnverifiedUser_from_request(o) = "Success"
           /\ User_from_request(o) # "Success"
        \/ cls = "Anonymous" /\ UnverifiedUser_from_request(o) # "Success"}

\* C6: role classification is total and monotonic.  For every request exactly one
\* class applies, the one its resolution and the user's flags call for; a request the
\* AdminUser guard admits is admitted by the User guard, a request the User guard
\* admits is admitted by the UnverifiedUser guard, and a request whose session
\* resolves no user is rejected by all three.
C6_RolesTotalAndMonotonic ==
    \A o \in OptSessions :
        /\ GuardClasses(o) = {RoleOf(o)}
        /\ AdminUser_from_request(o) = "Success" => User_from_request(o) = "Success"
        /\ User_from_request(o) = "Success" => UnverifiedUser_from_request(o) = "Success"
        /\ ~IsSome(Auth_get_user(o)) =>
               /\ AdminUser_from_request(o) # "Success"
               /\ User_from_request(o) # "Success"
               /\ UnverifiedUser_from_request(o) # "Success"

\* C6 witness: the requests of the clients fall in different classes: one is an
\* admin's, one is an unverified user's, and a request without a session is anonymous.
C6_Witness ==
    /\ RoleOf(None) = "Anonymous"
    /\ \E c1, c2 \in Clients :
           /\ AdminUser_from_request(cookies[c1]) = "Success"
           /\ RoleOf(cookies[c2]) = "Authenticated-Unverified"
           /\ UnverifiedUser_from_request(cookies[c2]) = "Success"
           /\ User_from_request(cookies[c2]) = "UnverifiedError"

\* A record with this email exists and its stored hash matches / does not match.
PasswordMatches(email, password) ==
    \E i \in DOMAIN db : db[i].email = email /\ verify_encoded(db[i].password, password)
PasswordMismatches(email, password) ==
    \E i \in DOMAIN db : db[i].email = email /\ ~verify_encoded(db[i].password, password)
EmailUnknown(email) == \A i \in DOMAIN db : db[i].email # email

\* C7: a login with the email of an existing user and the matching password
\* succeeds, stores the fresh key under the user's id and returns a Session with the
\* user's id and email whose auth_key is the stored secret; right after the login the
\* returned session authenticates.
C7_LoginSucceeds ==
    \A c \in Clients, email \in Emails, password \in Passwords, key \in rand_string(15) :
        PasswordMatches(email, password) =>
            LET r == Auth_login(c, email, password, key)
                id == UserIdOf(email)
            IN  /\ r.res = "Ok"
                /\ id \in DOMAIN r.store
                /\ r.store[id].secret = key
                /\ IsSome(r.cookies[c])
                /\ Unwrap(r.cookies[c]).id = id
                /\ Unwrap(r.cookies[c]).email = email
                /\ Unwrap(r.cookies[c]).auth_key = r.store[id].secret

C7_ReturnedSessionAuthenticates ==
    \A c \in Clients :
        (LoginStepBy(c) /\ Unwrap(cookies'[c]).auth_key \in rand_string(15)) =>
            /\ (Auth_is_auth(cookies[c]))'
            /\ (StoreMatches(Unwrap(cookies[c])))'
            /\ Unwrap(cookies'[c]).id \in DOMAIN db
            /\ db[Unwrap(cookies'[c]).id].email = Unwrap(cookies'[c]).email

C7_LoginIssuesAuthenticatingSession ==
    [](C7_LoginSucceeds) /\ [][C7_ReturnedSessionAuthenticates]_vars

\* C7 witness: a client holds the session a login returned for a user with a record,
\* and it authenticates against the key the login stored.
C7_Witness ==
    \E c \in Clients :
        /\ IsSome(cookies[c])
        /\ Unwrap(cookies[c]).auth_key \in rand_string(15)
        /\ Unwrap(cookies[c]).id \in DOMAIN db
        /\ db[Unwrap(cookies[c]).id].email = Unwrap(cookies[c]).email
        /\ Unwrap(cookies[c]).time_stamp = now
        /\ Auth_is_auth(cookies[c])

\* C8: login and login_for with the email of an existing user and a password that
\* does not match the stored hash fail with UnauthorizedError, leave the session
\* store as it was, issue no key and set no cookie.
C8_WrongPasswordUnauthorized ==
    \A c \in Clients, email \in Emails, password \in Passwords :
        PasswordMismatches(email, password) =>
            /\ \A key \in rand_string(15) :
                   /\ Auth_login(c, email, password, key) =
                          [res |-> "UnauthorizedError", store |-> sess, cookies |-> cookies]
                   /\ Users_login(email, password, key).key = None
            /\ \A key \in rand_string(10), time \in TTLs :
                   /\ Auth_login_for(c, email, password, key, time) =
                          [res |-> "UnauthorizedError", store |-> sess, cookies |-> cookies]
                   /\ Users_login_for(email, password, key, time).key = None

\* C8 witness: a user has a record and no key in the store, and a login and a
\* login_for with their email and another password are refused.
C8_Witness ==
    \E i \in DOMAIN db, c \in Clients, password \in Passwords :
        /\ i \notin DOMAIN sess
        /\ PasswordMismatches(db[i].email, password)
        /\ \E key \in rand_string(15) :
               Auth_login(c, db[i].email, password, key).res = "UnauthorizedError"
        /\ \E key \in rand_string(10), time \in TTLs :
               Auth_login_for(c, db[i].email, password, key, time).res = "UnauthorizedError"

\* C9: login and login_for with an email no record has both fail with
\* EmailDoesNotExist and issue no key.
C9_UnknownEmailDoesNotExist ==
    \A c \in Clients, email \in Emails, password \in Passwords :
        EmailUnknown(email) =>
            /\ \A key \in rand_string(15) :
                   Auth_login(c, email, password, key) =
                       [res |-> "EmailDoesNotExist", store |-> sess, cookies |-> cookies]
            /\ \A key \in rand_string(10), time \in TTLs :
                   Auth_login_for(c, email, password, key, time) =
                       [res |-> "EmailDoesNotExist", store |-> sess, cookies |-> cookies]

\* C10: a signup whose password violates the password policy returns an error to the
\* caller of Auth::signup and creates no record.
C10_WeakPasswordSignupFails ==
    \A email \in Emails, password \in Passwords, salt \in rand_salt(30), token \in NewTokens :
        is_secure(password) # "Ok" =>
            /\ Auth_signup(email, password, salt, token).res # "Ok"
            /\ Auth_signup(email, password, salt, token).db = db

\* C11: of two signups with the same email and policy-conforming passwords exactly
\* one succeeds and the other fails with EmailAlreadyExists: the signup that finds no
\* record with the email succeeds, every signup that finds one fails with
\* EmailAlreadyExists, for the caller of Users::signup and of Auth::signup, and leaves
\* the repository (and so the winner's record) as it is.
C11_DuplicateSignupEmailAlreadyExists ==
    \A email \in Emails, password \in Passwords, salt \in rand_salt(30), token \in NewTokens :
        Signup_validate(email, password) = {} =>
            /\ EmailUnknown(email) => Users_signup(email, password, salt, token).res = "Ok"
            /\ ~EmailUnknown(email) =>
                   /\ Users_signup(email, password, salt, token).res = "EmailAlreadyExists"
                   /\ Auth_signup(email, password, salt, token).res = "EmailAlreadyExists"
                   /\ Auth_signup(email, password, salt, token).db = db

\* C12: email uniqueness.  In every state reached by signup, create_user,
\* change_email, modify and delete, in any order, no two records of the repository
\* have the same email.
C12_EmailUnique ==
    \A i, j \in DOMAIN db : db[i].email = db[j].email => i = j

\* C12 witness: a user logged in, changed their email, and another user then signed
\* up with the email given up; changing back is now refused by the unique index.
C12_Witness ==
    \E c \in Clients, j \in DOMAIN db :
        /\ Auth_is_auth(cookies[c])
        /\ Unwrap(cookies[c]).id \in DOMAIN db
        /\ Unwrap(cookies[c]).id # j
        /\ db[Unwrap(cookies[c]).id].email # Unwrap(cookies[c]).email
        /\ db[j].email = Unwrap(cookies[c]).email
        /\ Auth_change_email(c, Unwrap(cookies[c]).email).db = db

\* A step in which a signup creates a record.
SignupStep ==
    /\ nextId' = nextId + 1
    /\ \E c \in Clients, email \in SignupEmails, password \in Passwords :
           Signup(c, email, password)

\* C13: signup does not log the user in.  A signup step leaves the session store and
\* the cookies as they were, so no session of the new user authenticates after it; a
\* user never logged in has no key in the store, and a key for a user appears in the
\* store only in a step where a login or login_for for that user succeeds.
C13_SignupLeavesStore ==
    SignupStep =>
        /\ sess' = sess
        /\ cookies' = cookies
        /\ \A s \in Sessions : s.id = nextId => (~Users_is_auth(s))'

C13_KeyOnlyByLogin ==
    \A id \in Ids :
        (id \notin DOMAIN sess /\ id \in DOMAIN sess') =>
            \E c \in Clients : LoginStepBy(c) /\ Unwrap(cookies'[c]).id = id

C13_NoKeyForUnborn == \A s \in Sessions : s.id >= nextId => ~Users_is_auth(s)

C13_SignupDoesNotLogIn ==
    [](C13_NoKeyForUnborn) /\ [][C13_SignupLeavesStore /\ C13_KeyOnlyByLogin]_vars

\* C13 witness: while one user is logged in, another signed up: the new record has no
\* key in the store and no session with its id authenticates.
C13_Witness ==
    \E i, j \in DOMAIN db :
        /\ i < j
        /\ ~db[j].is_admin
        /\ i \in DOMAIN sess
        /\ j \notin DOMAIN sess
        /\ \A s \in Sessions : s.id = j => ~Users_is_auth(s)

\* C14: a record created by signup has is_admin = false and is_verified = false, and
\* the is_verified of a record turns true only in a verify_account step of a client
\* authenticated as that user, with the record's verification token, that succeeds.
C14_SignupRecordUnverified ==
    SignupStep =>
        /\ nextId \in DOMAIN db'
        /\ ~db'[nextId].is_admin
        /\ ~db'[nextId].is_verified

C14_VerifiedOnlyByVerify ==
    \A id \in DOMAIN db :
        (id \in DOMAIN db' /\ ~db[id].is_verified /\ db'[id].is_verified) =>
            \E c \in Clients :
                /\ Auth_is_auth(cookies[c])
                /\ Unwrap(cookies[c]).id = id
                /\ Auth_verify_account(c, db[id].verification_token).res = "Ok"
                /\ VerifyAccount(c, db[id].verification_token)

C15_VerifyOnlyWithStoredToken ==
    \A c \in Clients, token \in Tokens :
        Auth_is_auth(cookies[c]) =>
            LET id == Unwrap(cookies[c]).id
                r == Auth_verify_account(c, token)
            IN  /\ id \in DOMAIN db
                /\ r.res = "Ok" <=> token = db[id].verification_token
                /\ r.res = "Ok" => r.db = [db EXCEPT ![id].is_verified = TRUE]
                /\ r.res # "Ok" => (r.res = "VerificationTokenMismatch" /\ r.db = db)

\* C15 witness: one authenticated client's account is verified; another
\* authenticated client's account is not, and a wrong token is refused for it while
\* the stored one would be accepted.
C15_Witness ==
    \E c1, c2 \in Clients :
        /\ Auth_is_auth(cookies[c1]) /\ Auth_is_auth(cookies[c2])
        /\ db[Unwrap(cookies[c1]).id].is_verified
        /\ ~db[Unwrap(cookies[c2]).id].is_verified
        /\ Auth_verify_account(c2, "tok456").res = "VerificationTokenMismatch"
        /\ Auth_verify_account(c2, "tok123").res = "Ok"

\* C16: after a delete by a client whose session was authenticated, the session
\* store has no entry for the user's id and the repository no record with it: the
\* session no longer authenticates, get_user_by_id fails with UserNotFoundError and
\* every login and login_for with the deleted user's email fails.
C16_DeleteRemovesUser ==
    \A c \in Clients :
        \A s \in {cookies[c]} :
            (Auth_is_auth(s) /\ cookies'[c] = None /\ Delete(c)) =>
                \A id \in {Unwrap(s).id} :
                    \A email \in {db[id].email} :
                        /\ id \notin DOMAIN sess'
                        /\ id \notin DOMAIN db'
                        /\ (~Auth_is_auth(s))'
                        /\ (Mongo_get_user_by_id(id).res = "UserNotFoundError")'
                        /\ \A c2 \in Clients, password \in Passwords :
                               /\ \A key \in rand_string(15) :
                                      (Auth_login(c2, email, password, key).res # "Ok")'
                               /\ \A key \in rand_string(10), time \in TTLs :
                                      (Auth_login_for(c2, email, password, key, time).res
                                           # "Ok")'

C16_DeleteAccount == [][C16_DeleteRemovesUser]_vars

\* C16 witness: a user who was logged in on two clients deleted the account from one
\* of them: the other client still holds the session, which no longer authenticates;
\* neither a record nor a key is left, and no record has the email.
C16_Witness ==
    \E c \in Clients :
        /\ IsSome(cookies[c])
        /\ Unwrap(cookies[c]).id < nextId
        /\ Unwrap(cookies[c]).id \notin DOMAIN db
        /\ Unwrap(cookies[c]).id \notin DOMAIN sess
        /\ ~Auth_is_auth(cookies[c])
        /\ EmailUnknown(Unwrap(cookies[c]).email)

\* C17: delete revokes the session before it deletes the record.  In every state of
\* a delete taken step by step, with either server failing at any moment and the
\* process crashing between the steps, no user whose record is deleted still has a key
\* in the session store; when the record deletion is attempted the key is already
\* removed, and it stays removed when the deletion then fails.
C17_NoKeyWithoutRecord ==
    \A id \in Ids : (id < nextId /\ id \notin DOMAIN db) => id \notin DOMAIN sess

C17_RevokedBeforeRecord ==
    \A c \in Clients : pc[c].op = "record" => pc[c].id \notin DOMAIN sess

C17_RevokedThoughDeleteFails ==
    \A c \in Clients :
        (pc[c].op = "record" /\ DeleteRecord(c) /\ db' = db) =>
            /\ pc[c].id \in DOMAIN db'
            /\ pc[c].id \notin DOMAIN sess'

C17_RevokeThenDelete ==
    [](C17_NoKeyWithoutRecord /\ C17_RevokedBeforeRecord)
        /\ [][C17_RevokedThoughDeleteFails]_vars

\* C17 witness: a delete has removed the user's key and is about to delete the
\* record while MongoDB does not answer: the record will stay, without a key.
C17_Witness ==
    \E c \in Clients :
        /\ pc[c].op = "record"
        /\ ~dbUp
        /\ pc[c].id \in DOMAIN db
        /\ pc[c].id \notin DOMAIN sess
        /\ IsSome(cookies[c])

\* C18: Users::delete(id) deletes only the user record and does not delete the
\* session: the record is gone from the repository it returns and the session store
\* it returns is the one before the call.
C18_UsersDeleteKeepsSession ==
    \A id \in DOMAIN db :
        /\ id \notin DOMAIN Users_delete(id).db
        /\ Users_delete(id).store = sess

\* C19: change_password, change_email, verify_account and delete, called by a client
\* with no session or with a session that does not authenticate, all fail with
\* UnauthenticatedError.
C19_UnauthenticatedErrorKind ==
    \A c \in Clients :
        ~Auth_is_auth(cookies[c]) =>
            /\ \A password \in Passwords, salt \in rand_salt(10) :
                   Auth_change_password(c, password, salt).res = "UnauthenticatedError"
            /\ \A email \in Emails : Auth_change_email(c, email).res = "UnauthenticatedError"
            /\ \A token \in Tokens : Auth_verify_account(c, token).res = "UnauthenticatedError"
            /\ Auth_delete(c).res = "UnauthenticatedError"

\* C20: change_password, change_email, verify_account and delete, called by a client
\* with no session or with a session that does not authenticate, leave every record of
\* the repository and every entry of the session store as they are.
C20_UnauthenticatedChangesNothing ==
    \A c \in Clients :
        ~Auth_is_auth(cookies[c]) =>
            /\ \A password \in Passwords, salt \in rand_salt(10) :
                   /\ Auth_change_password(c, password, salt).res # "Ok"
                   /\ Auth_change_password(c, password, salt).db = db
            /\ \A email \in Emails :
                   /\ Auth_change_email(c, email).res # "Ok"
                   /\ Auth_change_email(c, email).db = db
            /\ \A token \in Tokens :
                   /\ Auth_verify_account(c, token).res # "Ok"
                   /\ Auth_verify_account(c, token).db = db
            /\ Auth_delete(c).res # "Ok"
            /\ Auth_delete(c).db = db
            /\ Auth_delete(c).store = sess

\* C20 witness: one client has no session; another holds a session of an existing,
\* unverified user whose key was superseded by a later login, so that it does not
\* authenticate while the user has a record and a key the operations could touch.
C20_Witness ==
    \E c1, c2 \in Clients :
        /\ cookies[c1] = None
        /\ IsSome(cookies[c2])
        /\ ~Auth_is_auth(cookies[c2])
        /\ Unwrap(cookies[c2]).id \in DOMAIN db
        /\ Unwrap(cookies[c2]).id \in DOMAIN sess
        /\ ~db[Unwrap(cookies[c2]).id].is_verified
        /\ Auth_delete(c2).res = "UnauthenticatedError"

C22_ChangeApplies ==
    \A c \in Clients, password \in Passwords, salt \in rand_salt(10) :
        (Auth_is_auth(cookies[c]) /\ is_secure(password) = "Ok") =>
            LET r == Auth_change_password(c, password, salt)
                id == Unwrap(cookies[c]).id
            IN  /\ r.res = "Ok"
                /\ verify_encoded(r.db[id].password, password)
                /\ \A q \in Passwords \ {password} : ~verify_encoded(r.db[id].password, q)

C22_LoginAfterChange ==
    \A c \in Clients, password \in Passwords :
        \A s \in {cookies[c]} :
            (/\ Auth_is_auth(s)
             /\ is_secure(password) = "Ok"
             /\ db' # db
             /\ ChangePassword(c, password)) =>
                \A email \in {db[Unwrap(s).id].email} :
                    \A c2 \in Clients, key \in rand_string(15) :
                        /\ (Auth_login(c2, email, password, key).res = "Ok")'
                        /\ \A q \in Passwords \ {password} :
                               (Auth_login(c2, email, q, key).res = "UnauthorizedError")'

C22_NewPasswordLogsIn == [](C22_ChangeApplies) /\ [][C22_LoginAfterChange]_vars

\* C22 witness: a user created with one password and holding a live session now has
\* a hash made by set_password: the new password logs in, the previous one does not.
C22_Witness ==
    \E c \in Clients, key \in rand_string(15) :
        /\ Auth_is_auth(cookies[c])
        /\ db[Unwrap(cookies[c]).id].is_admin
        /\ db[Unwrap(cookies[c]).id].password.salt \in rand_salt(10)
        /\ Auth_login(c, Unwrap(cookies[c]).email, PwAbc12345, key).res = "Ok"
        /\ Auth_login(c, Unwrap(cookies[c]).email, PwShort1, key).res = "UnauthorizedError"

\* C23: change_email by a client with an authenticated session fails with
\* InvalidEmailAddressError and leaves the repository as it is when the email is
\* malformed, and with a well-formed email returns Ok and persists the user's record
\* with the new email and every other field unchanged.
C23_ChangeEmailPersists ==
    \A c \in Clients, email \in Emails :
        Auth_is_auth(cookies[c]) =>
            LET r == Auth_change_email(c, email)
                id == Unwrap(cookies[c]).id
            IN  /\ ~validate_email(email) =>
                       (r.res = "InvalidEmailAddressError" /\ r.db = db)
                /\ validate_email(email) =>
                       (r.res = "Ok" /\ r.db = [db EXCEPT ![id].email = email])

\* C24: write-path failures reach the caller.  Whenever signup (of a valid form),
\* change_password, change_email, verify_account, delete or logout returns Ok, its
\* write was applied: the record was created, the hash, the email or is_verified was
\* persisted, the record and the key were removed, the key was removed.
C24_SuccessMeansWritten ==
    /\ \A email \in Emails, password \in Passwords, salt \in rand_salt(30),
             token \in NewTokens :
           LET r == Auth_signup(email, password, salt, token)
           IN  (Signup_validate(email, password) = {} /\ r.res = "Ok") =>
                   \E i \in DOMAIN r.db \ DOMAIN db : r.db[i].email = email
    /\ \A c \in Clients :
           IsSome(cookies[c]) =>
               LET id == Unwrap(cookies[c]).id
               IN  /\ \A password \in Passwords, salt \in rand_salt(10) :
                          LET r == Auth_change_password(c, password, salt)
                          IN  r.res = "Ok" =>
                                  (id \in DOMAIN r.db
                                      /\ verify_encoded(r.db[id].password, password))
                   /\ \A email \in Emails :
                          LET r == Auth_change_email(c, email)
                          IN  r.res = "Ok" => (id \in DOMAIN r.db /\ r.db[id].email = email)
                   /\ \A token \in Tokens :
                          LET r == Auth_verify_account(c, token)
                          IN  r.res = "Ok" => (id \in DOMAIN r.db /\ r.db[id].is_verified)
                   /\ Auth_delete(c).res = "Ok" =>
                          (id \notin DOMAIN Auth_delete(c).db
                              /\ id \notin DOMAIN Auth_delete(c).store)
                   /\ Auth_logout(c).res = "Ok" =>
                          ~(/\ id \in DOMAIN Auth_logout(c).store
                            /\ Auth_logout(c).store[id].secret = Unwrap(cookies[c]).auth_key)

\* C25: the read path fails closed.  While the redis server does not answer, get
\* returns None for every id, as it does for an absent key, so for every session
\* is_auth is false and get_user is None; both are plain values, never an error.
C25_ReadPathFailsClosed ==
    (backend = "redis" /\ ~sessUp) =>
        \A s \in Sessions :
            /\ Sess_get(s.id) = None
            /\ Users_is_auth(s) = FALSE
            /\ Auth_is_auth(Some(s)) = FALSE
            /\ Auth_get_user(Some(s)) = None

\* A client holds the cookie of the key redis stores for an existing user, and the
\* redis server does not answer.
C25_Witness ==
    /\ backend = "redis"
    /\ ~sessUp
    /\ \E c \in Clients :
           /\ IsSome(cookies[c])
           /\ StoreMatches(Unwrap(cookies[c]))
           /\ Unwrap(cookies[c]).id \in DOMAIN db

\* C26: get_user returns the record whose id is the session's id when the session
\* is authenticated and the lookup finds the record, and None when there is no
\* session, the session is not authenticated, or the lookup by id fails (no such
\* record, or the database does not answer).
C26_GetUser ==
    \A o \in OptSessions :
        LET u == Auth_get_user(o)
        IN  IF /\ IsSome(o)
               /\ Users_is_auth(Unwrap(o))
               /\ dbUp
               /\ Unwrap(o).id \in DOMAIN db
            THEN u = Some(db[Unwrap(o).id]) /\ Unwrap(u).id = Unwrap(o).id
            ELSE u = None

\* One client holds an authenticated session of an existing user and is given the
\* record, while another holds a cookie that does not authenticate.
C26_Witness ==
    \E c, d \in Clients :
        /\ Auth_is_auth(cookies[c])
        /\ IsSome(Auth_get_user(cookies[c]))
        /\ IsSome(cookies[d])
        /\ ~Auth_is_auth(cookies[d])
        /\ Auth_get_user(cookies[d]) = None

\* C27: logging out a session that does not authenticate (a key never issued, a key
\* already logged out, a key superseded by a newer login of the same user) returns
\* Ok and leaves the session store as it is, so the user's current key stays.
C27_LogoutOfInvalidSession ==
    /\ \A s \in Sessions :
           ~Users_is_auth(s) => Users_logout(s) = [res |-> "Ok", store |-> sess]
    /\ \A c \in Clients :
           (IsSome(cookies[c]) /\ ~Auth_is_auth(cookies[c])) =>
               (Auth_logout(c).res = "Ok" /\ Auth_logout(c).store = sess)

\* A client holds a superseded cookie: the store has another key for the same user.
C27_Witness ==
    \E c \in Clients :
        /\ IsSome(cookies[c])
        /\ ~Auth_is_auth(cookies[c])
        /\ Unwrap(cookies[c]).id \in DOMAIN sess
        /\ Auth_logout(c).store = sess

\* remove of the backend in use, on any map.
SessionManager_remove(m, id) ==
    IF backend = "chashmap" THEN CHashMap_remove(m, id) ELSE Redis_remove(m, id)

\* C28: remove is idempotent.  On an absent id it returns Ok and changes nothing;
\* called twice it returns Ok both times and leaves what one call leaves: the id
\* absent and every other entry as it was.
C28_RemoveIdempotent ==
    \A id \in Ids :
        LET once == SessionManager_remove(sess, id)
            twice == SessionManager_remove(once.store, id)
        IN  /\ once.res = "Ok"
            /\ twice.res = "Ok"
            /\ twice.store = once.store
            /\ id \notin DOMAIN once.store
            /\ DOMAIN once.store = DOMAIN sess \ {id}
            /\ \A j \in DOMAIN once.store : once.store[j] = sess[j]
            /\ id \notin DOMAIN sess => once.store = sess

\* The store holds a key for one user and none for another existing user.
C28_Witness ==
    \E i, j \in Ids :
        /\ i \in DOMAIN sess
        /\ j \in DOMAIN db
        /\ j \notin DOMAIN sess
        /\ SessionManager_remove(sess, j).store = sess
        /\ SessionManager_remove(sess, i).store # sess

\* C29: in the in-memory store every entry records the absolute instant its key was
\* issued at plus its lifetime, and clear_expired at the current time keeps exactly
\* the entries whose lifetime has not yet elapsed.
C29_SweepKeepsLiveEntries ==
    backend = "chashmap" =>
        \A id \in DOMAIN sess :
            /\ sess[id].expires = deadline[id]
            /\ id \in DOMAIN CHashMap_clear_expired(sess).store <=> now < deadline[id]

\* A password of at least 8 characters with an uppercase letter, a lowercase letter
\* and a digit.
MeetsPolicy(p) ==
    /\ Len(p) >= 8
    /\ \E i \in 1..Len(p) : p[i] \in UpperChars
    /\ \E i \in 1..Len(p) : p[i] \in LowerChars
    /\ \E i \in 1..Len(p) : p[i] \in DigitChars

\* C30: for every password over the bounded alphabet, is_secure returns Ok, and
\* Signup::validate reports no violation, if and only if the password has at least
\* 8 characters and contains an uppercase letter, a lowercase letter and a digit.
C30_PolicyIff ==
    /\ IsSome(form.secure) =>
           (Unwrap(form.secure) = "Ok" <=> MeetsPolicy(form.password))
    /\ IsSome(form.violations) =>
           (Unwrap(form.violations) = {} <=> MeetsPolicy(form.password))

\* The rules a password breaks, each rule as the code tests it.
BrokenRules(p) ==
    (IF is_long(p) THEN {} ELSE {"long"})
      \cup (IF has_uppercase(p) THEN {} ELSE {"uppercase"})
      \cup (IF has_lowercase(p) THEN {} ELSE {"lowercase"})
      \cup (IF has_number(p) THEN {} ELSE {"number"})

\* The violations an is_secure result carries.
Reported(res) == IF res = "Ok" THEN {} ELSE {res}

\* C31: the four rules are evaluated independently.  For every password the
\* violations is_secure reports (the check of User::set_password) and the violations
\* Signup::validate reports are exactly the rules the password breaks.
C31_AllViolationsReported ==
    /\ IsSome(form.secure) =>
           Reported(Unwrap(form.secure)) = BrokenRules(form.password)
    /\ IsSome(form.violations) =>
           Unwrap(form.violations) = BrokenRules(form.password)

\* C32: every password hash in the repository was derived from a plaintext the
\* password policy approves.
C32_StoredHashesConform ==
    \A id \in DOMAIN db :
        \E p \in Passwords : verify_encoded(db[id].password, p) /\ is_secure(p) = "Ok"

\* The repository d has the records of db, each under the identifier it had.
IdsKept(d) == DOMAIN d = DOMAIN db /\ \A i \in DOMAIN d : d[i].id = i

\* A record the application still holds of a user with identifier i.
HeldRecord(i, email) ==
    [id |-> i, email |-> email, is_admin |-> FALSE, is_verified |-> TRUE,
     verification_token |-> "tok123",
     password |-> hash_encoded(PwAbc12345, [len |-> 10, n |-> 1])]

\* C33: identifiers are immutable.  Every record is stored under its own id, and
\* change_password, change_email, verify_account and Users::modify (with a record
\* of an existing or of a deleted user) leave the set of identifiers and the
\* identifier of every record as they were; none creates a record.
C33_IdentifierImmutable ==
    /\ \A i \in DOMAIN db : db[i].id = i
    /\ \A c \in Clients :
           /\ \A password \in Passwords, salt \in rand_salt(10) :
                  IdsKept(Auth_change_password(c, password, salt).db)
           /\ \A email \in Emails : IdsKept(Auth_change_email(c, email).db)
           /\ \A token \in Tokens : IdsKept(Auth_verify_account(c, token).db)
    /\ \A i \in Ids, email \in ValidEmails :
           IdsKept(Users_modify(HeldRecord(i, email)).db)

\* A logged-in user can change the email of the record, and the record of another
\* user has been deleted (a modify with its record finds no identifier to replace).
C33_Witness ==
    /\ \E c \in Clients, email \in Emails :
           Auth_is_auth(cookies[c]) /\ Auth_change_email(c, email).db # db
    /\ \E i \in Ids : i \notin DOMAIN db /\ i < nextId

\* A step of change_password, change_email, verify_account or Users::modify that
\* persists something: a record is replaced, none is added or removed.
ModifyStep == db' # db /\ DOMAIN db' = DOMAIN db

\* C38: change_password, change_email and verify_account (and Users::modify) leave
\* the session store and the cookies as they were: every session, held or probed,
\* authenticates after the step exactly if it did before, and no key is issued.
C38_ModifyKeepsSessions ==
    [][ModifyStep =>
           /\ sess' = sess
           /\ cookies' = cookies
           /\ \A s \in Sessions : Users_is_auth(s) <=> Users_is_auth(s)']_vars

\* A client's session still authenticates although it was issued under the email the
\* record had before change_email, and the password was set by change_password.
C38_Witness ==
    \E c \in Clients :
        /\ Auth_is_auth(cookies[c])
        /\ Unwrap(cookies[c]).id \in DOMAIN db
        /\ db[Unwrap(cookies[c]).id].email # Unwrap(cookies[c]).email
        /\ db[Unwrap(cookies[c]).id].password.salt.len = 10

\* C34: a logout never removes the key of another login.  When the remove of a
\* logout by client c runs, every session other than the one c logs out that
\* authenticated before it still authenticates after it.
C34_LogoutKeepsNewerKey ==
    [][\A c \in Clients :
           (pc[c].op = "logout_remove" /\ pc'[c] = Idle) =>
               \A s \in Sessions :
                   (/\ Users_is_auth(s)
                    /\ ~(/\ s.id = Unwrap(cookies[c]).id
                         /\ s.auth_key = Unwrap(cookies[c]).auth_key)) =>
                       Users_is_auth(s)']_vars

\* C35: verification is never lost.  No step turns is_verified of a record from
\* true to false, whatever change_email and change_password requests of the same
\* user are in flight.
C35_VerificationKept ==
    [][\A id \in DOMAIN db :
           db[id].is_verified => (id \in DOMAIN db' /\ db'[id].is_verified)]_vars

\* C36: no orphan session keys.  Once every login and delete has completed, the
\* session store holds an entry only for ids that still have a record.
C36_NoOrphanKeys ==
    AllIdle => \A id \in DOMAIN sess : id \in DOMAIN db

\* Users::login and Users::login_for fail without touching the session store.
C37_FailedIssueKeepsStore ==
    \A email \in Emails, password \in Passwords :
        /\ \A key \in rand_string(15) :
               Users_login(email, password, key).res # "Ok" =>
                   Users_login(email, password, key).store = sess
        /\ \A key \in rand_string(10), time \in TTLs :
               Users_login_for(email, password, key, time).res # "Ok" =>
                   Users_login_for(email, password, key, time).store = sess

\* Auth::login / login_for returns the error of the lookup that follows the key.
C37_FailedLookupKeepsStore ==
    \A c \in Clients :
        (/\ pc[c].op = "login_lookup"
         /\ pc'[c] = Idle
         /\ Mongo_get_user_by_email(pc[c].email).res # "Ok") =>
            sess' = pc[c].before

\* C37: a login or login_for that returns an error (unknown email, wrong password,
\* or a failure of the lookup that follows the key issuance) leaves the session
\* store as it was when the request arrived.
C37_FailedLoginKeepsStore ==
    [](C37_FailedIssueKeepsStore) /\ [][C37_FailedLookupKeepsStore]_vars

====
